---- MODULE Spec2Model ----
(***************************************************************************)
(* collapse_cnvs: CNV rows are collected into (family, chromosome) buckets *)
(* (collect_cnvs), each bucket is clustered by the connected components of *)
(* its overlap graph and each cluster is merged into one record            *)
(* (group_cnvs, overlap, merge_cnvs).                                      *)
(*                                                                         *)
(* Numbers: coordinates and copy numbers are Python ints.  The threshold   *)
(* min_overlap is a Python float; it is held here in tenths (7 is 0.7), and *)
(* the float comparison  overlap_size / size >= min_overlap  is the exact  *)
(* rational comparison  10 * overlap_size >= tenths * size : both the      *)
(* division and the decimal literal are correctly rounded, and two unequal *)
(* fractions with denominators this small never round to the same double.  *)
(*                                                                         *)
(* Rows are modelled after csv.DictReader and int() have produced their    *)
(* fields.  The rows of a run have start <= end; overlap is also called on *)
(* CNVs with start > end, for which it is FALSE before any division.       *)
(***************************************************************************)
EXTENDS Integers, Sequences, FiniteSets, Bags, TLC

VARIABLES
    pc,             \* where main() is: "collect", "group", "done"; "call", "return" for a single call
    min_overlap,    \* options.overlap, in tenths
    nread,          \* number of rows the reader has delivered
    rowsRead,       \* the distinct rows the reader has delivered (history)
    families,       \* collect_cnvs: family -> (chrom -> set of CNV)
    visited,        \* group_cnvs: the (family, chrom) buckets the loops have been through
    emitted,        \* the triples <<family, merged, component>> group_cnvs has yielded, a bag
    cnv1, cnv2,     \* the two CNVs overlap is called on
    cnvs,           \* argument of a single call of merge_cnvs
    overlap_ret,    \* the results of the calls of overlap made so far, in order
    merge_ret       \* result of the single call of merge_cnvs

vars == <<pc, min_overlap, nread, rowsRead, families, visited, emitted,
          cnv1, cnv2, cnvs, overlap_ret, merge_ret>>

callVars == <<cnv1, cnv2, cnvs, overlap_ret, merge_ret>>

----------------------------------------------------------------------------
(* Bounds *)

MaxCoord == 3       \* coordinates of the rows of a run are 1..MaxCoord
MaxRows == 3        \* rows the reader delivers in a run
MaxCoordB == 4      \* coordinates of the rows of a one-bucket run
MaxCoordO == 20     \* coordinates of the arguments of a single call of overlap
MaxCluster == 3     \* members of the argument of a single call of merge_cnvs

DEFAULT_OVERLAP == 7

Families == {"fam1", "fam2"}
Chroms == {"chr1", "chr2"}
CopyNumbers == {2, 3}
\* --overlap is any float, in tenths here: inside (0, 1] (0.4, 0.5, the default,
\* 1.0) or outside it (1.2)
Thresholds == {5, DEFAULT_OVERLAP, 10, 12}
RunThresholds == {DEFAULT_OVERLAP, 12}
ExampleThresholds == {4, DEFAULT_OVERLAP}

----------------------------------------------------------------------------
(* Values *)

CNV(chrom, start, end, copynumber) ==
    [chrom |-> chrom, start |-> start, end |-> end, copynumber |-> copynumber]

\* rows of a table over both families and both chromosomes, with one copy number
\* and start <= end
Rows ==
    {r \in [family : Families, chr : Chroms, coord_start : 1..MaxCoord,
            coord_end : 1..MaxCoord, copy_number : {2}] : r.coord_start <= r.coord_end}

\* rows of a table with one family and one chromosome, start <= end
BucketRows ==
    {r \in [family : {"fam1"}, chr : {"chr1"}, coord_start : 1..MaxCoordB,
            coord_end : 1..MaxCoordB, copy_number : CopyNumbers] :
        r.coord_start <= r.coord_end}

\* the rows A, B, C of the transitive-clustering example, in either family
ExampleA == CNV("chr1", 1, 10, 2)
ExampleB == CNV("chr1", 5, 15, 2)
ExampleC == CNV("chr1", 12, 20, 2)
ExampleRows ==
    {[family |-> f, chr |-> c.chrom, coord_start |-> c.start, coord_end |-> c.end,
      copy_number |-> c.copynumber] : f \in Families, c \in {ExampleA, ExampleB, ExampleC}}

\* arguments of a single call of overlap, start > end included; overlap reads neither
\* chrom nor copynumber
OverlapArgs == {CNV("chr1", s, e, 2) : s \in 1..MaxCoordO, e \in 1..MaxCoordO}

\* arguments of a single call of merge_cnvs: any set of at most MaxCluster CNVs
\* (start <= end), of one or more chromosomes and copynumbers
ClusterMembers ==
    {c \in [chrom : Chroms, start : 1..MaxCoord, end : 1..MaxCoord,
            copynumber : CopyNumbers] : c.start <= c.end}

RECURSIVE SetsUpTo(_, _)
SetsUpTo(X, n) ==
    IF n = 0 THEN {{}}
    ELSE LET smaller == SetsUpTo(X, n - 1)
         IN  smaller \cup {S \cup {x} : S \in smaller, x \in X}

NoCNV == CNV("", 0, 0, 0)
EmptyDict == [k \in {} |-> {}]
NoResult == [kind |-> "none", what |-> "", value |-> NoCNV]

max(a, b) == IF a >= b THEN a ELSE b
min(a, b) == IF a <= b THEN a ELSE b

\* min([...]) and max([...]) of a non-empty list of ints
ListMin(S) == CHOOSE x \in S : \A y \in S : x <= y
ListMax(S) == CHOOSE x \in S : \A y \in S : x >= y

----------------------------------------------------------------------------
(* overlap *)

\* faulty variant: > for >=
FractionAbove(overlap_size, size, tenths) == 10 * overlap_size > tenths * size

\* overlap_size / size >= min_overlap, size > 0
FractionAtLeast(overlap_size, size, tenths) == 10 * overlap_size >= tenths * size

\* faulty variant: only the first CNV's fraction is tested
overlapFirstOnly(c1, c2, tenths) ==
    LET overlap_start == max(c1.start, c2.start)
        overlap_end == min(c1.end, c2.end)
    IN  IF overlap_start < overlap_end
        THEN 10 * ((overlap_end - overlap_start) + 1) >= tenths * ((c1.end - c1.start) + 1)
        ELSE FALSE

\* faulty variant: both fractions must reach the threshold (and for or)
overlapBoth(c1, c2, tenths) ==
    LET overlap_start == max(c1.start, c2.start)
        overlap_end == min(c1.end, c2.end)
    IN  IF overlap_start < overlap_end
        THEN /\ 10 * ((overlap_end - overlap_start) + 1) >= tenths * ((c1.end - c1.start) + 1)
             /\ 10 * ((overlap_end - overlap_start) + 1) >= tenths * ((c2.end - c2.start) + 1)
        ELSE FALSE

\* faulty variant: any two shared coordinates count, whatever the fractions
overlapAnyShared(c1, c2, tenths) ==
    max(c1.start, c2.start) < min(c1.end, c2.end)

overlap(c1, c2, tenths) ==
    LET overlap_start == max(c1.start, c2.start)
        overlap_end == min(c1.end, c2.end)
    IN  IF overlap_start < overlap_end
        THEN LET overlap_size == (overlap_end - overlap_start) + 1
                 cnv1_size == (c1.end - c1.start) + 1
                 cnv2_size == (c2.end - c2.start) + 1
             IN  \/ FractionAtLeast(overlap_size, cnv1_size, tenths)
                 \/ FractionAtLeast(overlap_size, cnv2_size, tenths)
        ELSE FALSE

----------------------------------------------------------------------------
(* merge_cnvs.  example_cnv is the element the for loop reaches first: any *)
(* member, by the set's iteration order.                                   *)

Raise(what) == [kind |-> "raise", what |-> what, value |-> NoCNV]
Return(value) == [kind |-> "return", what |-> "", value |-> value]

\* faulty variant: min and max exchanged
merge_cnvsSwapped(cluster, example_cnv) ==
    IF ~(Cardinality(cluster) > 0)
    THEN Raise("AssertionError")
    ELSE Return(CNV(example_cnv.chrom,
                    ListMax({c.start : c \in cluster}),
                    ListMin({c.end : c \in cluster}),
                    example_cnv.copynumber))

\* faulty variant: the start is taken from example_cnv, like chrom and copynumber
merge_cnvsExampleStart(cluster, example_cnv) ==
    IF ~(Cardinality(cluster) > 0)
    THEN Raise("AssertionError")
    ELSE Return(CNV(example_cnv.chrom,
                    example_cnv.start,
                    ListMax({c.end : c \in cluster}),
                    example_cnv.copynumber))

merge_cnvs(cluster, example_cnv) ==
    IF ~(Cardinality(cluster) > 0)
    THEN Raise("AssertionError")
    ELSE LET start == ListMin({c.start : c \in cluster})
             end == ListMax({c.end : c \in cluster})
             chrom == example_cnv.chrom
             copynumber == example_cnv.copynumber
         IN  Return(CNV(chrom, start, end, copynumber))

----------------------------------------------------------------------------
(* collect_cnvs: one row *)

RowCNV(row) == CNV(row.chr, row.coord_start, row.coord_end, row.copy_number)

\* faulty variant: every family holds the same chroms dict (one object, aliased)
AddRowSharedDict(fams, row) ==
    LET chroms == IF DOMAIN fams = {} THEN EmptyDict
                  ELSE fams[CHOOSE f \in DOMAIN fams : TRUE]
        bucket == IF row.chr \in DOMAIN chroms THEN chroms[row.chr] ELSE {}
        chroms2 == [c \in (DOMAIN chroms) \cup {row.chr} |->
                        IF c = row.chr THEN bucket \cup {RowCNV(row)} ELSE chroms[c]]
    IN  [f \in (DOMAIN fams) \cup {row.family} |-> chroms2]

AddRow(fams, row) ==
    LET this_family == row.family
        chroms == IF this_family \in DOMAIN fams THEN fams[this_family] ELSE EmptyDict
        this_chrom == row.chr
        this_cnv == RowCNV(row)
        bucket == IF this_chrom \in DOMAIN chroms THEN chroms[this_chrom] ELSE {}
        chroms2 == [c \in (DOMAIN chroms) \cup {this_chrom} |->
                        IF c = this_chrom THEN bucket \cup {this_cnv} ELSE chroms[c]]
    IN  [f \in (DOMAIN fams) \cup {this_family} |->
            IF f = this_family THEN chroms2 ELSE fams[f]]

----------------------------------------------------------------------------
(* group_cnvs: the overlap graph of one bucket *)

\* the orders in which a set can be iterated
RECURSIVE Orderings(_)
Orderings(S) ==
    IF S = {} THEN {<<>>}
    ELSE UNION {{<<x>> \o o : o \in Orderings(S \ {x})} : x \in S}

\* itertools.combinations(chrom_cnvs, 2) for one iteration order
Combinations2(order) ==
    UNION {{<<order[i], order[j]>> : j \in {k \in DOMAIN order : i < k}} : i \in DOMAIN order}

\* faulty variant: the copynumber test is missing
BuildGraphNoGate(chrom_cnvs, order, tenths) ==
    [nodes |-> chrom_cnvs,
     edges |-> {{p[1], p[2]} : p \in
                  {q \in Combinations2(order) : overlap(q[1], q[2], tenths)}}]

BuildGraph(chrom_cnvs, order, tenths) ==
    [nodes |-> chrom_cnvs,
     edges |-> {{p[1], p[2]} : p \in
                  {q \in Combinations2(order) :
                      q[1].copynumber = q[2].copynumber /\ overlap(q[1], q[2], tenths)}}]

\* nx.connected_components: _plain_bfs from a source node
Neighbours(G, u) == {v \in G.nodes : {u, v} \in G.edges}

RECURSIVE plain_bfs(_, _, _)
plain_bfs(G, frontier, reached) ==
    IF frontier = {} THEN reached
    ELSE LET next == UNION {Neighbours(G, u) : u \in frontier} \ reached
         IN  plain_bfs(G, next, reached \cup next)

\* faulty variant: the source and its direct neighbours only
ComponentDirect(G, source) == {source} \cup Neighbours(G, source)

Component(G, source) == plain_bfs(G, {source}, {source})

\* nx.connected_components(G): the nodes in their order, each node not yet in a
\* component starts the next one
RECURSIVE connected_components(_, _, _, _)
connected_components(G, order, i, seen) ==
    IF i > Len(order) THEN <<>>
    ELSE IF order[i] \in seen THEN connected_components(G, order, i + 1, seen)
    ELSE LET c == Component(G, order[i])
         IN  <<c>> \o connected_components(G, order, i + 1, seen \cup c)

\* the triples group_cnvs can yield for components[i..], as bags: one per component,
\* merged with any member as example_cnv
RECURSIVE Yields(_, _, _)
Yields(family, components, i) ==
    IF i > Len(components) THEN {EmptyBag}
    ELSE IF Cardinality(components[i]) > 0
         THEN {SetToBag({<<family, merge_cnvs(components[i], example_cnv).value,
                           components[i]>>}) (+) rest :
                  example_cnv \in components[i], rest \in Yields(family, components, i + 1)}
         ELSE Yields(family, components, i + 1)

Buckets(fams) == UNION {{<<f, c>> : c \in DOMAIN fams[f]} : f \in DOMAIN fams}

----------------------------------------------------------------------------
(* main: collect_cnvs, then the generator group_cnvs.  The reader delivers *)
(* the rows of the table one at a time, whatever they are, then ends.  The *)
(* buckets are taken in any order.  The set of a bucket is iterated in one *)
(* order, any, by add_nodes_from, combinations and connected_components.   *)

NoCall ==
    /\ cnv1 = NoCNV /\ cnv2 = NoCNV /\ cnvs = {}
    /\ overlap_ret = <<>>
    /\ merge_ret = NoResult

NoRun ==
    /\ nread = 0
    /\ rowsRead = {}
    /\ families = EmptyDict
    /\ visited = {}
    /\ emitted = EmptyBag

RunInit(thresholds) ==
    /\ pc = "collect"
    /\ min_overlap \in thresholds
    /\ NoRun
    /\ NoCall

CollectRow(row) ==
    /\ pc = "collect"
    /\ nread < MaxRows
    /\ nread' = nread + 1
    /\ rowsRead' = rowsRead \cup {row}
    /\ families' = AddRow(families, row)
    /\ UNCHANGED <<pc, min_overlap, visited, emitted>>
    /\ UNCHANGED callVars

EndOfFile ==
    /\ pc = "collect"
    /\ pc' = "group"
    /\ UNCHANGED <<min_overlap, nread, rowsRead, families, visited, emitted>>
    /\ UNCHANGED callVars

\* one pass of the loops of group_cnvs: the graph of a bucket, its components, a
\* merged record yielded for each
ProcessBucket(family, chrom) ==
    /\ pc = "group"
    /\ <<family, chrom>> \in Buckets(families) \ visited
    /\ LET chrom_cnvs == families[family][chrom]
       IN  \E order \in Orderings(chrom_cnvs) :
              LET overlap_graph == BuildGraph(chrom_cnvs, order, min_overlap)
                  components == connected_components(overlap_graph, order, 1, {})
              IN  \E yielded \in Yields(family, components, 1) :
                     emitted' = emitted (+) yielded
    /\ visited' = visited \cup {<<family, chrom>>}
    /\ UNCHANGED <<pc, min_overlap, nread, rowsRead, families>>
    /\ UNCHANGED callVars

\* the loops of group_cnvs end, and main with them
Finish ==
    /\ pc = "group"
    /\ Buckets(families) \ visited = {}
    /\ pc' = "done"
    /\ UNCHANGED <<min_overlap, nread, rowsRead, families, visited, emitted>>
    /\ UNCHANGED callVars

Group ==
    \/ \E family \in Families, chrom \in Chroms : ProcessBucket(family, chrom)
    \/ Finish

\* a table over both families and both chromosomes
Init == RunInit(RunThresholds)

Next ==
    \/ \E row \in Rows : CollectRow(row)
    \/ EndOfFile
    \/ Group

Spec == Init /\ [][Next]_vars

\* a table with one family and one chromosome
InitBucket == RunInit(Thresholds)

NextInBucket ==
    \/ \E row \in BucketRows : CollectRow(row)
    \/ EndOfFile
    \/ Group

SpecBucket == InitBucket /\ [][NextInBucket]_vars

\* a table of the rows A, B, C
InitExample == RunInit(ExampleThresholds)

NextExample ==
    \/ \E row \in ExampleRows : CollectRow(row)
    \/ EndOfFile
    \/ Group

SpecExample == InitExample /\ [][NextExample]_vars

----------------------------------------------------------------------------
(* overlap called on any two CNVs and any threshold, then on the same two  *)
(* in the other order, as combinations() gives a pair in either order.     *)

InitOverlap ==
    /\ pc = "call"
    /\ min_overlap \in Thresholds
    /\ cnv1 \in OverlapArgs
    /\ cnv2 \in OverlapArgs
    /\ cnvs = {}
    /\ overlap_ret = <<>>
    /\ merge_ret = NoResult
    /\ NoRun

CallOverlap ==
    /\ pc = "call"
    /\ overlap_ret' = <<overlap(cnv1, cnv2, min_overlap)>>
    /\ pc' = "swap"
    /\ UNCHANGED <<min_overlap, nread, rowsRead, families, visited, emitted,
                   cnv1, cnv2, cnvs, merge_ret>>

CallOverlapSwapped ==
    /\ pc = "swap"
    /\ overlap_ret' = Append(overlap_ret, overlap(cnv2, cnv1, min_overlap))
    /\ pc' = "return"
    /\ UNCHANGED <<min_overlap, nread, rowsRead, families, visited, emitted,
                   cnv1, cnv2, cnvs, merge_ret>>

NextOverlap ==
    \/ CallOverlap
    \/ CallOverlapSwapped

SpecOverlap == InitOverlap /\ [][NextOverlap]_vars

----------------------------------------------------------------------------
(* A single call of merge_cnvs, on any set of at most MaxCluster CNVs *)

InitMerge ==
    /\ pc = "call"
    /\ min_overlap = DEFAULT_OVERLAP
    /\ cnv1 = NoCNV /\ cnv2 = NoCNV
    /\ cnvs \in SetsUpTo(ClusterMembers, MaxCluster)
    /\ overlap_ret = <<>>
    /\ merge_ret = NoResult
    /\ NoRun

CallMerge ==
    /\ pc = "call"
    /\ \E example_cnv \in (IF cnvs = {} THEN {NoCNV} ELSE cnvs) :
          merge_ret' = merge_cnvs(cnvs, example_cnv)
    /\ pc' = "return"
    /\ UNCHANGED <<min_overlap, nread, rowsRead, families, visited, emitted,
                   cnv1, cnv2, cnvs, overlap_ret>>

SpecMerge == InitMerge /\ [][CallMerge]_vars

----------------------------------------------------------------------------
(* Properties of overlap *)

WellFormed(c) == c.start <= c.end
Coords(c) == {x \in 1..MaxCoordO : c.start <= x /\ x <= c.end}
InUnitRange(tenths) == 0 < tenths /\ tenths <= 10

\* C6: for well-formed a, b and a threshold in (0, 1], overlap(a, b, t) is true
\* exactly when a and b share at least two coordinates (max of the starts < min of
\* the ends) and the shared length L is at least t of len(a) or at least t of
\* len(b); (1,10) and (10,20) never overlap; (1,10) and (1,7) overlap at 0.7.
C6_OverlapDefinition ==
    (pc # "call" /\ WellFormed(cnv1) /\ WellFormed(cnv2) /\ InUnitRange(min_overlap)) =>
        LET L == Cardinality(Coords(cnv1) \cap Coords(cnv2))
            len1 == Cardinality(Coords(cnv1))
            len2 == Cardinality(Coords(cnv2))
        IN  /\ overlap_ret[1] <=>
                  /\ L >= 2
                  /\ 10 * L >= min_overlap * len1 \/ 10 * L >= min_overlap * len2
            /\ (<<cnv1.start, cnv1.end, cnv2.start, cnv2.end>> = <<1, 10, 10, 20>>)
                  => ~overlap_ret[1]
            /\ (<<cnv1.start, cnv1.end, cnv2.start, cnv2.end>> = <<1, 10, 1, 7>>
                    /\ min_overlap = DEFAULT_OVERLAP)
                  => overlap_ret[1]

\* overlap has answered TRUE for (1,10) and (1,7), whose shared length is exactly 0.7 of len(a)
C6_Witness ==
    /\ pc # "call" /\ WellFormed(cnv1) /\ WellFormed(cnv2) /\ InUnitRange(min_overlap)
    /\ <<cnv1.start, cnv1.end, cnv2.start, cnv2.end>> = <<1, 10, 1, 7>>
    /\ min_overlap = DEFAULT_OVERLAP
    /\ overlap_ret[1]

\* C7: overlap(a, b, t) = overlap(b, a, t) for all CNVs a, b and every threshold
C7_OverlapSymmetric ==
    pc = "return" => overlap_ret[1] = overlap_ret[2]

\* both orders of a pair of different lengths have been answered, with TRUE
C7_Witness ==
    /\ pc = "return"
    /\ cnv1.end - cnv1.start > cnv2.end - cnv2.start
    /\ overlap_ret[1] /\ overlap_ret[2]

----------------------------------------------------------------------------
(* Properties of merge_cnvs *)

\* C5: for a non-empty cluster merge_cnvs returns a CNV whose start is the least
\* start and whose end is the greatest end of the members, so that it contains
\* every member; a cluster of one CNV merges to that CNV.
C5_MergeSpan ==
    (pc = "return" /\ cnvs # {}) =>
        /\ merge_ret.kind = "return"
        /\ \A c \in cnvs : merge_ret.value.start <= c.start /\ c.end <= merge_ret.value.end
        /\ \E c \in cnvs : merge_ret.value.start = c.start
        /\ \E c \in cnvs : merge_ret.value.end = c.end
        /\ \A c \in cnvs : cnvs = {c} => merge_ret.value = c

\* a cluster whose least start and greatest end come from different members was merged
C5_Witness ==
    /\ pc = "return"
    /\ merge_ret.kind = "return"
    /\ \E a, b \in cnvs :
          /\ a.start < b.start /\ a.end < b.end
          /\ merge_ret.value.start = a.start /\ merge_ret.value.end = b.end

MixedCluster(cluster) ==
    \E a, b \in cluster : a.chrom # b.chrom \/ a.copynumber # b.copynumber

\* C9: merge_cnvs fails, and returns no value, when the cluster is empty or its
\* members do not all have the same chrom and the same copynumber
C9_MergeFailsLoudly ==
    (pc = "return" /\ (cnvs = {} \/ MixedCluster(cnvs))) => merge_ret.kind = "raise"

----------------------------------------------------------------------------
(* Properties of a run *)

Triples == BagToSet(emitted)

\* the triples yielded for one bucket
ClustersOf(family, chrom) ==
    {t \in Triples : t[1] = family /\ \E m \in t[3] : m.chrom = chrom}

SameCluster(family, u, v) ==
    \E t \in Triples : t[1] = family /\ u \in t[3] /\ v \in t[3]

\* an edge of the overlap graph, as the claims define it
Edge(u, v, tenths) ==
    /\ u # v
    /\ u.copynumber = v.copynumber
    /\ overlap(u, v, tenths) \/ overlap(v, u, tenths)

\* u and v are joined by a path of edges through B
Joined(B, u, v, tenths) ==
    \E n \in 1..Cardinality(B) : \E path \in [1..n -> B] :
        /\ path[1] = u
        /\ path[n] = v
        /\ \A i \in 1..(n - 1) : Edge(path[i], path[i + 1], tenths)

\* C1: the clusters yielded for a bucket are exactly the connected components of
\* its overlap graph: every CNV of the bucket is in exactly one yielded cluster,
\* no cluster is empty or yielded twice, and two CNVs are in the same cluster if
\* and only if a path of edges joins them.
C1_ClustersAreComponents ==
    pc = "done" =>
        /\ \A t \in Triples : t[3] # {} /\ CopiesIn(t, emitted) = 1
        /\ \A b \in Buckets(families) :
              LET B == families[b[1]][b[2]]
              IN  /\ \A t \in ClustersOf(b[1], b[2]) : t[3] \subseteq B
                  /\ \A u \in B : Cardinality({t \in ClustersOf(b[1], b[2]) : u \in t[3]}) = 1
                  /\ \A u, v \in B :
                        SameCluster(b[1], u, v) <=> Joined(B, u, v, min_overlap)

\* a run has yielded a cluster holding two CNVs that share no edge
C1_Witness ==
    /\ pc = "done"
    /\ \E t \in Triples : \E u, v \in t[3] : u # v /\ ~Edge(u, v, min_overlap)

Inside(a, b) == b.start <= a.start /\ a.end <= b.end

Contained(u, v) ==
    /\ u # v
    /\ WellFormed(u) /\ WellFormed(v)
    /\ u.copynumber = v.copynumber
    /\ Inside(u, v)

\* C10 as stated: with a threshold in (0, 1], two distinct well-formed CNVs of a
\* bucket with equal copynumber, one inside the other, overlap and are in the
\* same cluster, however small the contained one is
C10_ContainmentAlwaysClusters ==
    (pc = "done" /\ InUnitRange(min_overlap)) =>
        \A b \in Buckets(families) : \A u, v \in families[b[1]][b[2]] :
            Contained(u, v) =>
                /\ overlap(u, v, min_overlap) /\ overlap(v, u, min_overlap)
                /\ SameCluster(b[1], u, v)

\* C10 amended: the same, for a contained CNV that spans at least two
\* coordinates (start < end)
C10_ContainmentOfTwoCoordinates ==
    (pc = "done" /\ InUnitRange(min_overlap)) =>
        \A b \in Buckets(families) : \A u, v \in families[b[1]][b[2]] :
            (Contained(u, v) /\ u.start < u.end) =>
                /\ overlap(u, v, min_overlap) /\ overlap(v, u, min_overlap)
                /\ SameCluster(b[1], u, v)

\* a run at the default threshold has clustered a CNV with one twice its length around it
C10_Witness ==
    /\ pc = "done"
    /\ min_overlap = DEFAULT_OVERLAP
    /\ \E b \in Buckets(families) : \E u, v \in families[b[1]][b[2]] :
          /\ Contained(u, v) /\ u.start < u.end
          /\ 2 * (u.end - u.start + 1) <= v.end - v.start + 1
          /\ SameCluster(b[1], u, v)

\* C3: no yielded cluster holds two CNVs of different copynumber, and the merged
\* record has the copynumber of every member
C3_CopyNumberGate ==
    \A t \in Triples : \A u, v \in t[3] :
        u.copynumber = v.copynumber /\ t[2].copynumber = u.copynumber

\* a bucket held two CNVs with the same coordinates and different copynumbers, and a
\* third that overlaps one of them; the run has yielded its clusters
C3_Witness ==
    /\ pc = "done"
    /\ \E b \in Buckets(families) : \E u, v, w \in families[b[1]][b[2]] :
          /\ u.start = v.start /\ u.end = v.end /\ u.copynumber # v.copynumber
          /\ SameCluster(b[1], u, w) /\ u # w

\* C4: every member of a yielded cluster comes from a row of the yielded family,
\* and has the chrom of the merged record: a cluster never holds rows of two
\* families or of two chromosomes
C4_BucketIsolation ==
    \A t \in Triples : \A m \in t[3] :
        /\ m.chrom = t[2].chrom
        /\ \E row \in rowsRead : row.family = t[1] /\ RowCNV(row) = m
        /\ t[1] \in DOMAIN families
        /\ m.chrom \in DOMAIN families[t[1]]
        /\ t[3] \subseteq families[t[1]][m.chrom]

\* rows with the same start, end and copynumber were read for two families and for two
\* chromosomes, and every cluster of the run has been yielded
C4_Witness ==
    /\ pc = "done"
    /\ \E r1, r2, r3 \in rowsRead :
          /\ r1.family # r2.family /\ r1.chr = r2.chr
          /\ r1.family = r3.family /\ r1.chr # r3.chr
          /\ \A r \in {r2, r3} :
                /\ r.coord_start = r1.coord_start /\ r.coord_end = r1.coord_end
                /\ r.copy_number = r1.copy_number
    /\ Cardinality(Triples) = 3

\* what the distinct rows of the table determine: one triple per row, of its family,
\* the span of the CNVs joined to it, and those CNVs
RowsOfBucket(rows, family, chrom) ==
    {RowCNV(r) : r \in {x \in rows : x.family = family /\ x.chr = chrom}}

JoinedTo(rows, row, tenths) ==
    LET B == RowsOfBucket(rows, row.family, row.chr)
    IN  {v \in B : Joined(B, RowCNV(row), v, tenths)}

Determined(rows, tenths) ==
    {<<row.family,
       CNV(row.chr,
           ListMin({c.start : c \in JoinedTo(rows, row, tenths)}),
           ListMax({c.end : c \in JoinedTo(rows, row, tenths)}),
           row.copy_number),
       JoinedTo(rows, row, tenths)>> : row \in rows}

\* C8: the triples of a finished run are a function of the set of distinct rows and
\* the threshold, whatever the order and repetition of the rows and whatever the
\* iteration orders of buckets, CNVs and cluster members
C8_Determinism ==
    pc = "done" =>
        /\ Triples = Determined(rowsRead, min_overlap)
        /\ \A t \in Triples : CopiesIn(t, emitted) = 1

\* a run that read a row twice has yielded a cluster of two CNVs
C8_Witness ==
    /\ pc = "done"
    /\ nread > Cardinality(rowsRead)
    /\ \E t \in Triples : Cardinality(t[3]) = 2

----------------------------------------------------------------------------
(* The transitive-clustering example: A = (1,10), B = (5,15), C = (12,20) *)

ExampleBucket(family) ==
    /\ family \in DOMAIN families
    /\ "chr1" \in DOMAIN families[family]
    /\ families[family]["chr1"] = {ExampleA, ExampleB, ExampleC}

\* C2 as stated: at the default threshold A and B overlap, B and C overlap, A and C
\* do not, and the bucket {A, B, C} yields the one cluster {A, B, C}, merged to
\* (chrom, 1, 20, 2)
C2_ExampleOneCluster ==
    (pc = "done" /\ min_overlap = DEFAULT_OVERLAP) =>
        \A family \in Families : ExampleBucket(family) =>
            /\ overlap(ExampleA, ExampleB, min_overlap)
            /\ overlap(ExampleB, ExampleC, min_overlap)
            /\ ~overlap(ExampleA, ExampleC, min_overlap)
            /\ ClustersOf(family, "chr1") =
                  {<<family, CNV("chr1", 1, 20, 2), {ExampleA, ExampleB, ExampleC}>>}

\* C2 amended: at the default threshold no two of A, B, C overlap and the bucket
\* yields the three singletons, each merged to itself; at threshold 0.4 A and B
\* overlap, B and C overlap, A and C do not, and the bucket yields the one cluster
\* {A, B, C}, merged to (chrom, 1, 20, 2)
C2_ExampleByThreshold ==
    pc = "done" =>
        \A family \in Families : ExampleBucket(family) =>
            /\ min_overlap = DEFAULT_OVERLAP =>
                  /\ ~overlap(ExampleA, ExampleB, min_overlap)
                  /\ ~overlap(ExampleB, ExampleC, min_overlap)
                  /\ ~overlap(ExampleA, ExampleC, min_overlap)
                  /\ ClustersOf(family, "chr1") =
                        {<<family, c, {c}>> : c \in {ExampleA, ExampleB, ExampleC}}
            /\ min_overlap = 4 =>
                  /\ overlap(ExampleA, ExampleB, min_overlap)
                  /\ overlap(ExampleB, ExampleC, min_overlap)
                  /\ ~overlap(ExampleA, ExampleC, min_overlap)
                  /\ ClustersOf(family, "chr1") =
                        {<<family, CNV("chr1", 1, 20, 2), {ExampleA, ExampleB, ExampleC}>>}

\* a run at the default threshold over a bucket {A, B, C} has yielded its clusters
C2_Witness ==
    /\ pc = "done"
    /\ min_overlap = DEFAULT_OVERLAP
    /\ \E family \in Families :
          ExampleBucket(family) /\ Cardinality(ClustersOf(family, "chr1")) = 3

====
